---- MODULE Spec2Model ----
(***************************************************************************)
(* HashFunctionTester (src/main.py): the benchmarking engine that drives   *)
(* the cross-product of loaded datasets and hash functions, tabulates      *)
(* collisions and stores one result per (dataset, function) pair.          *)
(*                                                                         *)
(* Python dicts keep insertion order, so test_data and hash_functions are  *)
(* sequences of [key, val] entries with unique keys; results is only ever  *)
(* indexed, so it is a function from keys to values.  Floats that come     *)
(* from a division are kept as fractions [num, den].                       *)
(***************************************************************************)
EXTENDS Integers, Sequences, FiniteSets, TLC

\* ---------------------------------------------------------------- bounds
MaxOps == 4        \* calls of load_test_files and test_functions in one behaviour
MaxTime == 1       \* largest elapsed time a pair can measure
MaxPairLen == 3    \* longest dataset of the single-pair specification

\* ------------------------------------------------------------ input sets
FileNames == {"A.txt", "B.txt"}
FuncNames == {"f", "g"}
Elements == {"x", "y", "z"}
Codes == {0, 1, 2}

\* Mutant: failures recorded under a code of their own.
SentinelOwnCode == 0 - 1

\* The value appended for an element whose hashing raised.
Sentinel == 0

\* What one invocation func(item) does: return a code or raise.
Ret(c) == [exc |-> FALSE, code |-> c]
Raise == [exc |-> TRUE, code |-> 0]
Outcomes == {Raise} \cup {Ret(c) : c \in Codes}
Callables == [Elements -> Outcomes]

\* --------------------------------------------------------- dict helpers
Entry(k, v) == [key |-> k, val |-> v]
Keys(d) == {d[i].key : i \in 1..Len(d)}
EmptyDict == [k \in {} |-> 0]

\* d[k] = v on an insertion-ordered dict: in place when k is a key, else appended.
DictSet(d, k, v) ==
    IF k \in Keys(d)
    THEN [i \in 1..Len(d) |-> IF d[i].key = k THEN Entry(k, v) ELSE d[i]]
    ELSE Append(d, Entry(k, v))

\* m[k] = v on a dict that is only indexed.
MapSet(m, k, v) == [x \in (DOMAIN m) \cup {k} |-> IF x = k THEN v ELSE m[x]]

RECURSIVE SeqsUpTo(_, _)
SeqsUpTo(S, n) ==
    IF n = 0 THEN {<<>>}
    ELSE LET shorter == SeqsUpTo(S, n - 1)
         IN shorter \cup {Append(s, e) : s \in {t \in shorter : Len(t) = n - 1}, e \in S}

VARIABLES
    test_data,       \* self.test_data: ordered dict, file name -> list of elements
    results,         \* self.results: file name -> (function name -> TestResult)
    hash_functions,  \* the argument of test_functions: ordered dict, name -> callable
    pc,              \* where test_functions stands
    file_idx,        \* position of the outer loop in test_data.items()
    func_idx,        \* position of the inner loop in hash_functions.items()
    hashes,          \* the local list of codes of the pair being processed
    pair_state,      \* per pair of the current call: PENDING, RUNNING, COMPLETE, SKIPPED
    prev,            \* results as the current call found them, and whether the call
                     \* before it returned and had the same arguments
    nloads,
    ncalls

vars == <<test_data, results, hash_functions, pc, file_idx, func_idx, hashes,
          pair_state, prev, nloads, ncalls>>

\* ------------------------------------------------------- pure computations

\* hashes of one pair: func on every element in order, the sentinel where it raises.
RECURSIVE HashLoop(_, _, _)
HashLoop(func, data, acc) ==
    IF data = <<>> THEN acc
    ELSE LET r == func[Head(data)]
         IN HashLoop(func, Tail(data),
                     Append(acc, IF r.exc THEN Sentinel ELSE r.code))

\* Mutant: an element whose hashing raised is left out of the list.
HashAllDrop(func, data) ==
    HashLoop(func, SelectSeq(data, LAMBDA e : ~func[e].exc), <<>>)

HashAll(func, data) == HashLoop(func, data, <<>>)

\* hash_counts: defaultdict(int) incremented once per code.
RECURSIVE CountLoop(_, _)
CountLoop(hs, counts) ==
    IF hs = <<>> THEN counts
    ELSE LET h == Head(hs)
             old == IF h \in DOMAIN counts THEN counts[h] ELSE 0
         IN CountLoop(Tail(hs), MapSet(counts, h, old + 1))

\* Mutant: the table is not created afresh, it goes on from the counts the
\* pair had when the call started.
HashCountsShared(hs) ==
    LET d == test_data[file_idx].key
        f == hash_functions[func_idx].key
    IN CountLoop(hs, IF d \in DOMAIN prev.results /\ f \in DOMAIN prev.results[d]
                     THEN prev.results[d][f].hash_counts
                     ELSE EmptyDict)

HashCounts(hs) == CountLoop(hs, EmptyDict)

RECURSIVE SumOver(_, _)
SumOver(f, S) ==
    IF S = {} THEN 0
    ELSE LET k == CHOOSE x \in S : TRUE
         IN f[k] + SumOver(f, S \ {k})

\* Mutant: the number of colliding pairs, cnt * (cnt - 1) / 2 per code.
CollidingPairs(counts) ==
    SumOver([k \in DOMAIN counts |-> (counts[k] * (counts[k] - 1)) \div 2],
            DOMAIN counts)

\* sum(cnt - 1 for cnt in hash_counts.values() if cnt > 1)
Collisions(counts) ==
    SumOver([k \in DOMAIN counts |-> IF counts[k] > 1 THEN counts[k] - 1 ELSE 0],
            DOMAIN counts)

UniqueHashes(counts) == Cardinality(DOMAIN counts)

Frac(n, d) == [num |-> n, den |-> d]

\* test_uniformity(list(hash_counts.values())): (0, 0) when the expected count is
\* 0, else chisquare(counts): the statistic sum((c - mean)^2 / mean) with
\* mean = S / k, which is (k * sum(c^2) - S^2) / S, and the p-value of that
\* statistic at k - 1 degrees of freedom, kept symbolic.
TestUniformity(counts) ==
    LET k == Cardinality(DOMAIN counts)
        S == SumOver(counts, DOMAIN counts)
        Q == SumOver([c \in DOMAIN counts |-> counts[c] * counts[c]], DOMAIN counts)
    IN IF k = 0 \/ S = 0
       THEN [chi2 |-> Frac(0, 1), p_value |-> [kind |-> "const", stat |-> Frac(0, 1), dof |-> 0]]
       ELSE [chi2 |-> Frac(k * Q - S * S, S),
             p_value |-> [kind |-> "sf", stat |-> Frac(k * Q - S * S, S), dof |-> k - 1]]

\* collisions / len(data) raises ZeroDivisionError on an empty dataset.
RateRaises(data) == Len(data) = 0

\* Mutant: the rate taken over the distinct elements of the dataset.
CollisionRatePerDistinct(collisions, data) ==
    Frac(collisions, Cardinality({data[i] : i \in 1..Len(data)}))

CollisionRate(collisions, data) == Frac(collisions, Len(data))

\* The dict stored for a pair.
TestResult(hs, data, elapsed) ==
    LET counts == HashCounts(hs)
        u == TestUniformity(counts)
    IN [time |-> elapsed,
        collisions |-> Collisions(counts),
        collision_rate |-> CollisionRate(Collisions(counts), data),
        unique_hashes |-> UniqueHashes(counts),
        chi2 |-> u.chi2,
        p_value |-> u.p_value,
        hash_counts |-> counts]

\* ------------------------------------------------------------------ state
CurFile == test_data[file_idx]
CurFunc == hash_functions[func_idx]

SetPair(ps, d, f, s) == [ps EXCEPT ![d][f] = s]

\* d[k] on an insertion-ordered dict.
DictGet(d, k) == d[CHOOSE i \in 1..Len(d) : d[i].key = k].val

NoPrev == [valid |-> FALSE, results |-> EmptyDict]

\* The TestResult values with the measured time left out.
NoTime(r) == [collisions |-> r.collisions, collision_rate |-> r.collision_rate,
              unique_hashes |-> r.unique_hashes, chi2 |-> r.chi2,
              p_value |-> r.p_value, hash_counts |-> r.hash_counts]

StripTime(res) == [d \in DOMAIN res |-> [f \in DOMAIN res[d] |-> NoTime(res[d][f])]]

\* ---------------------------------------------------------------- inputs

\* The callables the registries of the orchestration runs are built from:
\* an injective hash, one that raises on "x" and returns a legitimate 0 on
\* "y", and one that raises on every element.
Perfect == [e \in Elements |-> IF e = "x" THEN Ret(0) ELSE IF e = "y" THEN Ret(1) ELSE Ret(2)]
Partial == [e \in Elements |-> IF e = "x" THEN Raise ELSE IF e = "y" THEN Ret(0) ELSE Ret(1)]
Broken == [e \in Elements |-> Raise]
Family == {Perfect, Partial, Broken}

Registries ==
    {<<>>} \cup {<<Entry("f", h)>> : h \in Family}
           \cup {<<Entry("f", h), Entry("g", k)>> : h \in Family, k \in Family}

\* What os.listdir and the parsers hand to load_test_files: the files that load,
\* in listing order, each with its elements.  A listing holds no file or one
\* file, empty or not; two datasets are loaded by two calls.
Datasets == {<<>>, <<"x", "y">>}

Listings == {<<>>} \cup {<<Entry(n, d)>> : n \in FileNames, d \in Datasets}

\* ----------------------------------------------------------------- actions

\* load_test_files: self.test_data[filename] = data for every file that loads.
RECURSIVE LoadLoop(_, _)
LoadLoop(td, files) ==
    IF files = <<>> THEN td
    ELSE LoadLoop(DictSet(td, Head(files).key, Head(files).val), Tail(files))

LoadTestFiles(files) ==
    /\ pc \in {"idle", "returned", "raised"}
    /\ test_data' = LoadLoop(test_data, files)
    /\ pc' = "idle"
    /\ pair_state' = EmptyDict
    /\ nloads' = nloads + 1
    /\ UNCHANGED <<results, hash_functions, file_idx, func_idx, hashes, prev, ncalls>>

\* test_functions(hash_functions), up to the first loop: ValueError when no
\* test data is loaded.
Call(hf) ==
    /\ pc \in {"idle", "returned", "raised"}
    /\ hash_functions' = hf
    /\ ncalls' = ncalls + 1
    /\ IF test_data = <<>>
       THEN /\ pc' = "raised"
            /\ pair_state' = EmptyDict
            /\ UNCHANGED <<file_idx, func_idx, prev>>
       ELSE /\ pc' = "file"
            /\ file_idx' = 1
            /\ func_idx' = 1
            /\ pair_state' = [d \in Keys(test_data) |-> [f \in Keys(hf) |-> "PENDING"]]
            /\ prev' = [valid |-> pc = "returned" /\ hf = hash_functions,
                        results |-> StripTime(results)]
    /\ UNCHANGED <<test_data, results, hashes, nloads>>

\* Mutant: the inner dict is created only when the file has none yet.
NextFileKeep ==
    /\ pc = "file"
    /\ IF file_idx > Len(test_data)
       THEN /\ pc' = "returned"
            /\ UNCHANGED <<results, func_idx>>
       ELSE /\ results' = IF CurFile.key \in DOMAIN results
                          THEN results
                          ELSE MapSet(results, CurFile.key, EmptyDict)
            /\ func_idx' = 1
            /\ pc' = "func"
    /\ UNCHANGED <<test_data, hash_functions, file_idx, hashes, pair_state, prev, nloads, ncalls>>

\* for filename, data in self.test_data.items(): self.results[filename] = {}
NextFile ==
    /\ pc = "file"
    /\ IF file_idx > Len(test_data)
       THEN /\ pc' = "returned"
            /\ UNCHANGED <<results, func_idx>>
       ELSE /\ results' = MapSet(results, CurFile.key, EmptyDict)
            /\ func_idx' = 1
            /\ pc' = "func"
    /\ UNCHANGED <<test_data, hash_functions, file_idx, hashes, pair_state, prev, nloads, ncalls>>

\* Mutant: self.results[filename] = {} sits inside the inner loop.
NextFuncReset ==
    /\ pc = "func"
    /\ IF func_idx > Len(hash_functions)
       THEN /\ file_idx' = file_idx + 1
            /\ pc' = "file"
            /\ UNCHANGED <<pair_state, results>>
       ELSE /\ pc' = "try"
            /\ results' = MapSet(results, CurFile.key, EmptyDict)
            /\ pair_state' = SetPair(pair_state, CurFile.key, CurFunc.key, "RUNNING")
            /\ UNCHANGED file_idx
    /\ UNCHANGED <<test_data, hash_functions, func_idx, hashes, prev, nloads, ncalls>>

\* for func_name, func in hash_functions.items(): start_time = time.time()
NextFunc ==
    /\ pc = "func"
    /\ IF func_idx > Len(hash_functions)
       THEN /\ file_idx' = file_idx + 1
            /\ pc' = "file"
            /\ UNCHANGED pair_state
       ELSE /\ pc' = "try"
            /\ pair_state' = SetPair(pair_state, CurFile.key, CurFunc.key, "RUNNING")
            /\ UNCHANGED file_idx
    /\ UNCHANGED <<test_data, results, hash_functions, func_idx, hashes, prev, nloads, ncalls>>

\* The hashing loop of the try block.
HashElements ==
    /\ pc = "try"
    /\ hashes' = HashAll(CurFunc.val, CurFile.val)
    /\ pc' = "analyse"
    /\ UNCHANGED <<test_data, results, hash_functions, file_idx, func_idx, pair_state,
                   prev, nloads, ncalls>>

\* Mutant: no except clause around the pair, the exception leaves test_functions.
AnalysePropagate ==
    /\ pc = "analyse"
    /\ \E elapsed \in 0..MaxTime :
          IF RateRaises(CurFile.val)
          THEN /\ pc' = "raised"
               /\ UNCHANGED <<results, pair_state, func_idx>>
          ELSE /\ results' = [results EXCEPT ![CurFile.key] =
                                 MapSet(@, CurFunc.key, TestResult(hashes, CurFile.val, elapsed))]
               /\ pair_state' = SetPair(pair_state, CurFile.key, CurFunc.key, "COMPLETE")
               /\ func_idx' = func_idx + 1
               /\ pc' = "func"
    /\ hashes' = <<>>
    /\ UNCHANGED <<test_data, hash_functions, file_idx, prev, nloads, ncalls>>

\* Mutant: the except clause returns instead of continuing with the next pair.
AnalyseAbort ==
    /\ pc = "analyse"
    /\ \E elapsed \in 0..MaxTime :
          IF RateRaises(CurFile.val)
          THEN /\ pair_state' = SetPair(pair_state, CurFile.key, CurFunc.key, "SKIPPED")
               /\ pc' = "returned"
               /\ UNCHANGED results
          ELSE /\ results' = [results EXCEPT ![CurFile.key] =
                                 MapSet(@, CurFunc.key, TestResult(hashes, CurFile.val, elapsed))]
               /\ pair_state' = SetPair(pair_state, CurFile.key, CurFunc.key, "COMPLETE")
               /\ pc' = "func"
    /\ func_idx' = func_idx + 1
    /\ hashes' = <<>>
    /\ UNCHANGED <<test_data, hash_functions, file_idx, prev, nloads, ncalls>>

\* The analysis and the store of the try block; its except clause when the
\* division raises.
Analyse ==
    /\ pc = "analyse"
    /\ \E elapsed \in 0..MaxTime :
          IF RateRaises(CurFile.val)
          THEN /\ pair_state' = SetPair(pair_state, CurFile.key, CurFunc.key, "SKIPPED")
               /\ UNCHANGED results
          ELSE /\ results' = [results EXCEPT ![CurFile.key] =
                                 MapSet(@, CurFunc.key, TestResult(hashes, CurFile.val, elapsed))]
               /\ pair_state' = SetPair(pair_state, CurFile.key, CurFunc.key, "COMPLETE")
    /\ func_idx' = func_idx + 1
    /\ hashes' = <<>>
    /\ pc' = "func"
    /\ UNCHANGED <<test_data, hash_functions, file_idx, prev, nloads, ncalls>>

\* HashFunctionTester(): both dicts empty, nothing called yet.
Init ==
    /\ test_data = <<>>
    /\ results = EmptyDict
    /\ hash_functions = <<>>
    /\ pc = "idle"
    /\ file_idx = 1
    /\ func_idx = 1
    /\ hashes = <<>>
    /\ pair_state = EmptyDict
    /\ prev = NoPrev
    /\ nloads = 0
    /\ ncalls = 0

Next ==
    \/ \E files \in Listings : nloads + ncalls < MaxOps /\ LoadTestFiles(files)
    \/ \E hf \in Registries : nloads + ncalls < MaxOps /\ Call(hf)
    \/ NextFile
    \/ NextFunc
    \/ HashElements
    \/ Analyse

Spec == Init /\ [][Next]_vars

\* One dataset under one callable: every dataset up to MaxPairLen elements,
\* every callable over Elements.
PairListings == {<<Entry("A.txt", d)>> : d \in SeqsUpTo(Elements, MaxPairLen)}
PairRegistries == {<<Entry("f", h)>> : h \in Callables}

NextPair ==
    \/ \E files \in PairListings : nloads = 0 /\ ncalls = 0 /\ LoadTestFiles(files)
    \/ \E hf \in PairRegistries : nloads = 1 /\ ncalls = 0 /\ Call(hf)
    \/ NextFile
    \/ NextFunc
    \/ HashElements
    \/ Analyse

SpecPair == Init /\ [][NextPair]_vars

\* ------------------------------------------------------------ properties
InCall == pc \in {"file", "func", "try", "analyse"}
Terminal == {"COMPLETE", "SKIPPED"}

\* The pairs of the current call and where each stands.
Pairs == {<<d, f>> \in FileNames \X FuncNames :
             d \in DOMAIN pair_state /\ f \in DOMAIN pair_state[d]}
StateOf(d, f) == pair_state[d][f]
Stored(d, f) == d \in DOMAIN results /\ f \in DOMAIN results[d]
DataOf(d) == DictGet(test_data, d)
FuncOf(f) == DictGet(hash_functions, f)

\* C1: a pair over an empty dataset ends COMPLETE, not SKIPPED, with a stored
\* TestResult whose collisions, collision_rate, chi2 and p_value are all 0.
C1_EmptyDatasetStored ==
    \A p \in Pairs :
        (StateOf(p[1], p[2]) \in Terminal /\ Len(DataOf(p[1])) = 0)
        => /\ StateOf(p[1], p[2]) = "COMPLETE"
           /\ Stored(p[1], p[2])
           /\ results[p[1]][p[2]].collisions = 0
           /\ results[p[1]][p[2]].collision_rate.num = 0
           /\ results[p[1]][p[2]].chi2.num = 0
           /\ results[p[1]][p[2]].p_value.kind = "const"

\* C2 as stated: test_functions never raises, whatever is loaded.
C2_NeverRaises == pc # "raised"

\* C2 amended: with at least one dataset loaded test_functions never raises and
\* every step of the call has a next step until it returns; it raises exactly
\* when no dataset is loaded.
C2_ReturnsWhenLoaded ==
    /\ pc = "raised" => test_data = <<>>
    /\ InCall => test_data # <<>>
    /\ InCall => ENABLED (NextFile \/ NextFunc \/ HashElements \/ Analyse)

\* A call that returned although every function raises on every element and a
\* dataset is empty.
C2_Witness ==
    /\ pc = "returned"
    /\ \E i \in 1..Len(hash_functions) : hash_functions[i].val = Broken
    /\ \E i \in 1..Len(test_data) : test_data[i].val = <<>>
    /\ \E i \in 1..Len(test_data) : test_data[i].val # <<>>

\* C3: when test_functions returns every pair of the cross-product has been
\* processed, and every pair whose dataset is not empty (the only pair-level
\* failure is the division by the dataset size) is COMPLETE with a TestResult.
C3_SkipOnlyThatPair ==
    pc = "returned" =>
        /\ Pairs = Keys(test_data) \X Keys(hash_functions)
        /\ \A p \in Pairs :
              /\ StateOf(p[1], p[2]) \in Terminal
              /\ Len(DataOf(p[1])) > 0
                    => StateOf(p[1], p[2]) = "COMPLETE" /\ Stored(p[1], p[2])

\* A skipped pair followed by a completed one.
C3_Witness ==
    /\ pc = "returned"
    /\ Len(test_data) = 2 /\ Len(hash_functions) = 2
    /\ \A f \in Keys(hash_functions) :
          /\ StateOf(test_data[1].key, f) = "SKIPPED"
          /\ StateOf(test_data[2].key, f) = "COMPLETE"
          /\ Stored(test_data[2].key, f)

\* What func does on the i-th element of dataset d.
OutcomeAt(d, f, i) == FuncOf(f)[DataOf(d)[i]]
Positions(d) == 1..Len(DataOf(d))
Failing(d, f) == {i \in Positions(d) : OutcomeAt(d, f, i).exc}
CodeAt(d, f, i) == IF OutcomeAt(d, f, i).exc THEN 0 ELSE OutcomeAt(d, f, i).code
Returning(d, f, c) == {i \in Positions(d) : ~OutcomeAt(d, f, i).exc /\ OutcomeAt(d, f, i).code = c}
Mixed(d, f) == Failing(d, f) # {} /\ Failing(d, f) # Positions(d)
DistinctCodes(d, f) == {CodeAt(d, f, i) : i \in Positions(d)}
Occurrences(d, f, c) == Cardinality({i \in Positions(d) : CodeAt(d, f, i) = c})

RECURSIVE Redundant(_, _, _)
Redundant(d, f, S) ==
    IF S = {} THEN 0
    ELSE LET c == CHOOSE x \in S : TRUE
         IN (Occurrences(d, f, c) - 1) + Redundant(d, f, S \ {c})

\* C4: when the function raises on some elements of a non-empty dataset and
\* returns on others, the code list has one entry per element, 0 at every
\* failing position and the element's own code elsewhere, and the pair ends
\* COMPLETE with a stored TestResult.
C4_SentinelPerFailingElement ==
    /\ (pc = "analyse" /\ Mixed(CurFile.key, CurFunc.key))
          => /\ Len(hashes) = Len(CurFile.val)
             /\ \A i \in 1..Len(CurFile.val) :
                   hashes[i] = IF CurFunc.val[CurFile.val[i]].exc
                               THEN 0
                               ELSE CurFunc.val[CurFile.val[i]].code
    /\ \A p \in Pairs :
          (StateOf(p[1], p[2]) \in Terminal /\ Mixed(p[1], p[2]))
          => StateOf(p[1], p[2]) = "COMPLETE" /\ Stored(p[1], p[2])

\* A completed pair whose function raised in the middle of the dataset.
C4_Witness ==
    \E p \in Pairs :
        /\ StateOf(p[1], p[2]) = "COMPLETE" /\ Stored(p[1], p[2])
        /\ Len(DataOf(p[1])) = 3
        /\ Failing(p[1], p[2]) = {2}
        /\ OutcomeAt(p[1], p[2], 1).code = 2
        /\ OutcomeAt(p[1], p[2], 3).code = 1

\* C5: every TestResult stored for a non-empty dataset has
\* collisions + unique_hashes = dataset size, hence unique_hashes <= dataset size.
C5_CollisionsPlusUnique ==
    \A p \in Pairs :
        StateOf(p[1], p[2]) = "COMPLETE"
        => /\ Stored(p[1], p[2])
           /\ Len(DataOf(p[1])) > 0
           /\ results[p[1]][p[2]].collisions + results[p[1]][p[2]].unique_hashes
                 = Len(DataOf(p[1]))
           /\ results[p[1]][p[2]].unique_hashes <= Len(DataOf(p[1]))

\* A stored result with a sentinel substitution, a collision and two distinct codes.
C5_Witness ==
    \E p \in Pairs :
        /\ StateOf(p[1], p[2]) = "COMPLETE" /\ Stored(p[1], p[2])
        /\ Failing(p[1], p[2]) # {}
        /\ results[p[1]][p[2]].collisions = 1
        /\ results[p[1]][p[2]].unique_hashes = 2

C7_Idempotent ==
    (pc = "returned" /\ prev.valid) => StripTime(results) = prev.results

\* A repeated call that stored a result with a collision and skipped a pair.
C7_Witness ==
    /\ pc = "returned" /\ prev.valid
    /\ \E p \in Pairs : StateOf(p[1], p[2]) = "SKIPPED"
    /\ \E p \in Pairs : Stored(p[1], p[2]) /\ results[p[1]][p[2]].collisions = 1

\* C8: within one call a pair goes PENDING -> RUNNING -> COMPLETE or SKIPPED,
\* enters RUNNING only from PENDING, and once COMPLETE or SKIPPED neither its
\* state nor its TestResult (stored or absent) changes.
C8_Step ==
    (ncalls' = ncalls /\ nloads' = nloads) =>
        \A p \in Pairs :
            LET was == pair_state[p[1]][p[2]]
                now == pair_state'[p[1]][p[2]]
            IN /\ \/ now = was
                  \/ was = "PENDING" /\ now = "RUNNING"
                  \/ was = "RUNNING" /\ now \in Terminal
               /\ was \in Terminal
                     => /\ now = was
                        /\ Stored(p[1], p[2])' = Stored(p[1], p[2])
                        /\ Stored(p[1], p[2]) => results'[p[1]][p[2]] = results[p[1]][p[2]]

\* C8: every step of a behaviour keeps the pair lifecycle of C8_Step.
C8_PairLifecycle == [][C8_Step]_vars

\* A call in progress with a completed and a skipped pair behind it and a
\* running pair.
C8_Witness ==
    /\ pc = "analyse"
    /\ \E p \in Pairs : StateOf(p[1], p[2]) = "COMPLETE" /\ Stored(p[1], p[2])
    /\ \E p \in Pairs : StateOf(p[1], p[2]) = "SKIPPED"
    /\ \E p \in Pairs : StateOf(p[1], p[2]) = "RUNNING"

\* C9: after test_functions returns, results has a key for every loaded
\* dataset, and results[d] holds f exactly when pair (d, f) completed in this
\* call, whatever an earlier call stored.
C9_ResultsMatchCompleted ==
    pc = "returned" =>
        \A d \in Keys(test_data) :
            /\ d \in DOMAIN results
            /\ \A f \in FuncNames :
                  f \in DOMAIN results[d]
                  <=> (<<d, f>> \in Pairs /\ StateOf(d, f) = "COMPLETE")

\* An entry of an earlier call gone after a call that skipped its pair.
C9_Witness ==
    /\ pc = "returned"
    /\ \E p \in Pairs :
          /\ StateOf(p[1], p[2]) = "SKIPPED"
          /\ p[1] \in DOMAIN prev.results /\ p[2] \in DOMAIN prev.results[p[1]]
          /\ results[p[1]] = EmptyDict

\* C10: in the stored hash_counts the count of code 0 is the number of failing
\* elements plus the number of elements hashed to 0, which adds that number
\* less one to collisions, and every other code counts its own elements only.
C10_SentinelSharesZeroBucket ==
    \A p \in Pairs :
        StateOf(p[1], p[2]) = "COMPLETE"
        => LET r == results[p[1]][p[2]]
               k == Cardinality(Failing(p[1], p[2]))
               m == Cardinality(Returning(p[1], p[2], 0))
               others == {c \in Codes \ {0} : Returning(p[1], p[2], c) # {}}
           IN /\ DOMAIN r.hash_counts = others \cup (IF k + m >= 1 THEN {0} ELSE {})
              /\ k + m >= 1 => r.hash_counts[0] = k + m
              /\ \A c \in others :
                    r.hash_counts[c] = Cardinality(Returning(p[1], p[2], c))
              /\ r.collisions = (IF k + m >= 1 THEN k + m - 1 ELSE 0)
                                + Redundant(p[1], p[2], others)

\* A failing element, a legitimate zero and a non-zero code in one stored result.
C10_Witness ==
    \E p \in Pairs :
        /\ StateOf(p[1], p[2]) = "COMPLETE" /\ Stored(p[1], p[2])
        /\ Cardinality(Failing(p[1], p[2])) = 1
        /\ Cardinality(Returning(p[1], p[2], 0)) = 1
        /\ Cardinality(Returning(p[1], p[2], 2)) = 1
        /\ results[p[1]][p[2]].collisions = 1

====
